---- MODULE Spec2Model ----
(***************************************************************************)
(* Look-up tables of the look_up_table crate: the one-dimensional table    *)
(* (OneDLookUpTable / OneDLookUpTableRef) and the two-dimensional table    *)
(* (TwoDLookUpTable / TwoDLookUpTableRef), their construction checks,      *)
(* their interpolation routines and their result caches.                   *)
(*                                                                         *)
(* f64 is modelled by a binary floating-point format of the same shape     *)
(* (sign, biased exponent, fraction; subnormals, signed zeros, infinities, *)
(* NaNs; round-to-nearest-even) with ExpBits exponent bits and FracBits    *)
(* fraction bits instead of 11 and 52.                                     *)
(***************************************************************************)
EXTENDS Integers, Sequences, FiniteSets, TLC

\* ------------------------------------------------------------------------
\* Bounds of the model
\* ------------------------------------------------------------------------

\* Width of the exponent field of the modelled float format (f64: 11).
ExpBits == 3

\* Width of the fraction field of the modelled float format (f64: 52).
FracBits == 2

\* Longest breakpoint / value sequence handed to a constructor.
MaxLen == 3

\* Most entries a cache holds before the exploration stops adding queries.
MaxCached == 2

\* ------------------------------------------------------------------------
\* The floating-point format
\* ------------------------------------------------------------------------

Pow2(n) == IF n <= 0 THEN 1 ELSE 2 ^ n

\* All-ones exponent field: infinities and NaNs.
ExpMax == Pow2(ExpBits) - 1

Bias == Pow2(ExpBits - 1) - 1

\* Exponent of the unit in which every finite value is an integer (the
\* smallest subnormal).
EMin == 1 - Bias - FracBits

\* Hidden bit of a normal number.
Hidden == Pow2(FracBits)

\* A float is its bit pattern.
Float == [sign : {0, 1}, exp : 0 .. ExpMax, frac : 0 .. (Hidden - 1)]

Bits(s, e, f) == [sign |-> s, exp |-> e, frac |-> f]

NAN == Bits(0, ExpMax, Hidden \div 2)

INFINITY == Bits(0, ExpMax, 0)

NEG_INFINITY == Bits(1, ExpMax, 0)

is_nan(v) == v.exp = ExpMax /\ v.frac # 0

is_infinite(v) == v.exp = ExpMax /\ v.frac = 0

\* Magnitude of a finite float in units of 2^EMin.
Mag(v) ==
    IF v.exp = 0 THEN v.frac ELSE (Hidden + v.frac) * Pow2(v.exp - 1)

\* Largest finite magnitude, in units of 2^EMin.
MaxMag == (2 * Hidden - 1) * Pow2(ExpMax - 2)

\* Signed value used for ordering non-NaN floats; infinities lie beyond
\* every finite value, the two zeros coincide.
Ord(v) ==
    LET m == IF is_infinite(v) THEN MaxMag + 1 ELSE Mag(v)
    IN  IF v.sign = 1 THEN 0 - m ELSE m

\* The largest i in 0 .. top with Hidden * 2^i * d <= n, or 0 if there is none.
RECURSIVE TopExp(_, _, _)
TopExp(top, n, d) ==
    IF top <= 0 \/ Hidden * Pow2(top) * d <= n THEN top ELSE TopExp(top - 1, n, d)

\* The float of sign s and magnitude k units, k representable.
Encode(s, k) ==
    IF k < Hidden
    THEN Bits(s, 0, k)
    ELSE LET j == TopExp(ExpMax - 2, k, 1)
         IN  Bits(s, j + 1, (k \div Pow2(j)) - Hidden)

\* n / d rounded to the nearest integer, ties to even.
RoundHalfEven(n, d) ==
    LET q == n \div d
        r == n % d
    IN  IF 2 * r < d THEN q
        ELSE IF 2 * r > d THEN q + 1
        ELSE IF q % 2 = 0 THEN q ELSE q + 1

\* The float nearest to (-1)^s * (n / d) units (n >= 0, d > 0), ties to
\* even, overflowing to infinity.
Round(s, n, d) ==
    IF n >= 2 * Hidden * Pow2(ExpMax - 2) * d
    THEN Bits(s, ExpMax, 0)
    ELSE LET j == TopExp(ExpMax - 2, n, d)
             k == RoundHalfEven(n, d * Pow2(j)) * Pow2(j)
         IN  IF k > MaxMag THEN Bits(s, ExpMax, 0) ELSE Encode(s, k)

\* The literal (-1)^s * n / d as the compiler rounds it.
Lit(s, n, d) == Round(s, n * Pow2(0 - EMin), d)

Num(n) == IF n < 0 THEN Lit(1, 0 - n, 1) ELSE Lit(0, n, 1)

Abs(i) == IF i < 0 THEN 0 - i ELSE i

\* a + b
FAdd(a, b) ==
    IF is_nan(a) \/ is_nan(b) THEN NAN
    ELSE IF is_infinite(a) /\ is_infinite(b)
         THEN IF a.sign = b.sign THEN a ELSE NAN
    ELSE IF is_infinite(a) THEN a
    ELSE IF is_infinite(b) THEN b
    ELSE LET k == Ord(a) + Ord(b)
         IN  IF k = 0
             THEN Bits(IF a.sign = 1 /\ b.sign = 1 THEN 1 ELSE 0, 0, 0)
             ELSE Round(IF k < 0 THEN 1 ELSE 0, Abs(k), 1)

FNeg(a) == Bits(1 - a.sign, a.exp, a.frac)

\* a - b
FSub(a, b) == FAdd(a, IF is_nan(b) THEN b ELSE FNeg(b))

SignXor(a, b) == IF a.sign = b.sign THEN 0 ELSE 1

\* Mantissa and exponent of a finite float: value = FMant * 2^FExp.
FMant(v) == IF v.exp = 0 THEN v.frac ELSE Hidden + v.frac

FExp(v) == (IF v.exp = 0 THEN 1 ELSE v.exp) - Bias - FracBits

\* a * b
FMul(a, b) ==
    IF is_nan(a) \/ is_nan(b) THEN NAN
    ELSE IF is_infinite(a) \/ is_infinite(b)
         THEN IF (~is_infinite(a) /\ Mag(a) = 0) \/ (~is_infinite(b) /\ Mag(b) = 0)
              THEN NAN
              ELSE Bits(SignXor(a, b), ExpMax, 0)
    ELSE LET m == FMant(a) * FMant(b)
             k == FExp(a) + FExp(b) - EMin
         IN  IF m = 0 THEN Bits(SignXor(a, b), 0, 0)
             ELSE IF k > ExpMax + FracBits THEN Bits(SignXor(a, b), ExpMax, 0)
             ELSE IF k >= 0 THEN Round(SignXor(a, b), m * Pow2(k), 1)
             ELSE Round(SignXor(a, b), m, Pow2(0 - k))

\* a / b
FDiv(a, b) ==
    IF is_nan(a) \/ is_nan(b) THEN NAN
    ELSE IF is_infinite(a)
         THEN IF is_infinite(b) THEN NAN ELSE Bits(SignXor(a, b), ExpMax, 0)
    ELSE IF is_infinite(b) THEN Bits(SignXor(a, b), 0, 0)
    ELSE IF Mag(b) = 0
         THEN IF Mag(a) = 0 THEN NAN ELSE Bits(SignXor(a, b), ExpMax, 0)
    ELSE IF Mag(a) = 0 THEN Bits(SignXor(a, b), 0, 0)
    ELSE LET k == FExp(a) - FExp(b) - EMin
         IN  IF k >= 0 THEN Round(SignXor(a, b), FMant(a) * Pow2(k), FMant(b))
             ELSE Round(SignXor(a, b), FMant(a), FMant(b) * Pow2(0 - k))

\* a < b, a > b, a == b of f64: false whenever an operand is NaN.
FLt(a, b) == ~is_nan(a) /\ ~is_nan(b) /\ Ord(a) < Ord(b)

FGt(a, b) == FLt(b, a)

FEq(a, b) == ~is_nan(a) /\ ~is_nan(b) /\ Ord(a) = Ord(b)

\* f64::partial_cmp: "None" when an operand is NaN.
partial_cmp(a, b) ==
    IF is_nan(a) \/ is_nan(b) THEN "None"
    ELSE IF Ord(a) < Ord(b) THEN "Less"
    ELSE IF Ord(a) > Ord(b) THEN "Greater"
    ELSE "Equal"

\* integer_decode with the sign dropped from the key.
integer_decode_unsigned(v) ==
    <<IF v.exp = 0 THEN v.frac * 2 ELSE v.frac + Hidden, v.exp - (Bias + FracBits), 1>>

\* num::Float::integer_decode: (mantissa, exponent, sign) of the bit pattern.
integer_decode(v) ==
    LET sign     == IF v.sign = 0 THEN 1 ELSE -1
        mantissa == IF v.exp = 0 THEN v.frac * 2 ELSE v.frac + Hidden
        exponent == v.exp - (Bias + FracBits)
    IN  <<mantissa, exponent, sign>>

\* ------------------------------------------------------------------------
\* Slices and results
\* ------------------------------------------------------------------------

\* vs[i] with the source's zero-based index.
At(vs, i) == vs[i + 1]

InRange(vs, i) == i >= 0 /\ i < Len(vs)

\* The outcome of a call: a value, or a panic that unwinds out of it.
Value(v) == [ok |-> TRUE, v |-> v]

Panic == [ok |-> FALSE, v |-> Bits(0, 0, 0)]

\* vs[i] as Rust evaluates it: a panic when i is out of range.
Index(vs, i) == IF InRange(vs, i) THEN Value(At(vs, i)) ELSE Panic

\* c[1] - c[0] > EPSILON for every window of two adjacent elements.
StrictlyIncreasing(vs, eps) ==
    \A i \in 1 .. (Len(vs) - 1) : FGt(FSub(vs[i + 1], vs[i]), eps)

AnyNanOrInfinite(vs) ==
    \E i \in 1 .. Len(vs) : is_nan(vs[i]) \/ is_infinite(vs[i])

\* slice::binary_search_by(|val| val.partial_cmp(v).unwrap()) over
\* vs[left .. right): Ok(index) of a match, Err(insertion point), or the
\* unwrap's panic when the comparison has no answer.
RECURSIVE binary_search_by(_, _, _, _)
binary_search_by(vs, v, left, right) ==
    IF left >= right
    THEN [panic |-> FALSE, found |-> FALSE, ind |-> left]
    ELSE LET mid == left + ((right - left) \div 2)
             cmp == partial_cmp(At(vs, mid), v)
         IN  IF cmp = "None"
             THEN [panic |-> TRUE, found |-> FALSE, ind |-> 0]
             ELSE IF cmp = "Less" THEN binary_search_by(vs, v, mid + 1, right)
             ELSE IF cmp = "Greater" THEN binary_search_by(vs, v, left, mid)
             ELSE [panic |-> FALSE, found |-> TRUE, ind |-> mid]

\* ------------------------------------------------------------------------
\* One-dimensional table: validation and interpolation
\* ------------------------------------------------------------------------

\* crate::EPSILON, 1e-8 in f64: a gap far above the spacing of the floats
\* near zero and far below the breakpoints in use. In the modelled format
\* that is 1/8.
EPSILON == Lit(0, 1, 8)

\* is_object_constructible with the order check made before the NaN check.
is_object_constructible_order_first(x, y) ==
    IF Len(x) < 2 \/ Len(y) < 2 THEN "MinLengthError"
    ELSE IF ~StrictlyIncreasing(x, EPSILON) THEN "IncreasingXOrderError"
    ELSE IF AnyNanOrInfinite(x) \/ AnyNanOrInfinite(y)
         THEN "ContainingNansOrInfinities"
    ELSE "Ok"

\* oned_lut::interpolation::is_object_constructible
is_object_constructible(x, y) ==
    IF Len(x) < 2 \/ Len(y) < 2 THEN "MinLengthError"
    ELSE IF AnyNanOrInfinite(x) \/ AnyNanOrInfinite(y)
         THEN "ContainingNansOrInfinities"
    ELSE IF ~StrictlyIncreasing(x, EPSILON) THEN "IncreasingXOrderError"
    ELSE "Ok"

\* Lerp without the difference: y1 + alpha * y2.
Lerp_no_difference(x, x1, x2, y1, y2) ==
    FAdd(y1, FMul(FDiv(FSub(x, x1), FSub(x2, x1)), y2))

\* The interpolation with the difference reversed: y1 + alpha * (y1 - y2).
Lerp_reversed(x, x1, x2, y1, y2) ==
    FAdd(y1, FMul(FDiv(FSub(x, x1), FSub(x2, x1)), FSub(y1, y2)))

\* y1 + alpha * (y2 - y1), alpha = (x - x1) / (x2 - x1)
Lerp(x, x1, x2, y1, y2) ==
    LET alpha == FDiv(FSub(x, x1), FSub(x2, x1))
    IN  FAdd(y1, FMul(alpha, FSub(y2, y1)))

\* interpolate without the exact-match return: a match at ind is treated
\* as the insertion point ind.
interpolate_no_exact_match(x, x_s, y_s) ==
    IF ~InRange(x_s, 0) THEN Panic
    ELSE IF FLt(x, At(x_s, 0)) THEN Index(y_s, 0)
    ELSE IF FGt(x, At(x_s, Len(x_s) - 1)) THEN Index(y_s, Len(y_s) - 1)
    ELSE LET r == binary_search_by(x_s, x, 0, Len(x_s))
             lub == r.ind
             prev == lub - 1
         IN  IF r.panic THEN Panic
             ELSE IF ~InRange(x_s, prev) \/ ~InRange(x_s, lub)
                     \/ ~InRange(y_s, prev) \/ ~InRange(y_s, lub)
                  THEN Panic
             ELSE Value(Lerp(x, At(x_s, prev), At(x_s, lub),
                             At(y_s, prev), At(y_s, lub)))

\* interpolate without the clamp on the right.
interpolate_no_right_clamp(x, x_s, y_s) ==
    IF ~InRange(x_s, 0) THEN Panic
    ELSE IF FLt(x, At(x_s, 0)) THEN Index(y_s, 0)
    ELSE LET r == binary_search_by(x_s, x, 0, Len(x_s))
             lub == r.ind
             prev == lub - 1
         IN  IF r.panic THEN Panic
             ELSE IF r.found THEN Index(y_s, r.ind)
             ELSE IF ~InRange(x_s, prev) \/ ~InRange(x_s, lub)
                     \/ ~InRange(y_s, prev) \/ ~InRange(y_s, lub)
                  THEN Panic
             ELSE Value(Lerp(x, At(x_s, prev), At(x_s, lub),
                             At(y_s, prev), At(y_s, lub)))

\* oned_lut::interpolation::interpolate
interpolate(x, x_s, y_s) ==
    IF ~InRange(x_s, 0) THEN Panic
    ELSE IF FLt(x, At(x_s, 0)) THEN Index(y_s, 0)
    ELSE IF FGt(x, At(x_s, Len(x_s) - 1)) THEN Index(y_s, Len(y_s) - 1)
    ELSE LET r == binary_search_by(x_s, x, 0, Len(x_s))
         IN  IF r.panic THEN Panic
             ELSE IF r.found THEN Index(y_s, r.ind)
             ELSE LET lub  == r.ind
                      prev == lub - 1
                  IN  IF ~InRange(x_s, prev) \/ ~InRange(x_s, lub)
                         \/ ~InRange(y_s, prev) \/ ~InRange(y_s, lub)
                      THEN Panic
                      ELSE Value(Lerp(x, At(x_s, prev), At(x_s, lub),
                                      At(y_s, prev), At(y_s, lub)))

\* ------------------------------------------------------------------------
\* Two-dimensional table: validation and interpolation
\* ------------------------------------------------------------------------

\* surface.iter().any(|row| row.iter().any(check_nan_infinity))
SurfaceAnyNanOrInfinite(s) ==
    \E r \in 1 .. Len(s) : AnyNanOrInfinite(s[r])

\* is_object_constructible_dynamic with the order check on the x axis only.
is_object_constructible_dynamic_x_only(x, y, s) ==
    IF Len(x) < 2 \/ Len(y) < 2 THEN "MinLengthError"
    ELSE IF AnyNanOrInfinite(x) \/ AnyNanOrInfinite(y) \/ SurfaceAnyNanOrInfinite(s)
         THEN "ContainingNansOrInfinities"
    ELSE IF ~StrictlyIncreasing(x, EPSILON) THEN "IncreasingDimOrderError"
    ELSE "Ok"

\* twod_lut::interpolation::is_object_constructible_dynamic (and its
\* iterator twin is_object_constructible_gen, which makes the same checks).
is_object_constructible_dynamic(x, y, s) ==
    IF Len(x) < 2 \/ Len(y) < 2 THEN "MinLengthError"
    ELSE IF AnyNanOrInfinite(x) \/ AnyNanOrInfinite(y) \/ SurfaceAnyNanOrInfinite(s)
         THEN "ContainingNansOrInfinities"
    ELSE IF ~StrictlyIncreasing(x, EPSILON) \/ ~StrictlyIncreasing(y, EPSILON)
         THEN "IncreasingDimOrderError"
    ELSE "Ok"

\* get_indices without the exact-match pair: a match at ind is treated as
\* the insertion point ind.
get_indices_no_exact_match(v, vs) ==
    IF ~InRange(vs, 0) THEN [panic |-> TRUE, lo |-> 0, hi |-> 0]
    ELSE IF FLt(v, At(vs, 0)) THEN [panic |-> FALSE, lo |-> 0, hi |-> 0]
    ELSE IF FGt(v, At(vs, Len(vs) - 1))
         THEN [panic |-> FALSE, lo |-> Len(vs) - 1, hi |-> Len(vs) - 1]
    ELSE LET r == binary_search_by(vs, v, 0, Len(vs))
         IN  IF r.panic \/ r.ind = 0 THEN [panic |-> TRUE, lo |-> 0, hi |-> 0]
             ELSE [panic |-> FALSE, lo |-> r.ind - 1, hi |-> r.ind]

\* get_indices with the bracketing pair returned in the opposite order.
get_indices_reversed(v, vs) ==
    IF ~InRange(vs, 0) THEN [panic |-> TRUE, lo |-> 0, hi |-> 0]
    ELSE IF FLt(v, At(vs, 0)) THEN [panic |-> FALSE, lo |-> 0, hi |-> 0]
    ELSE IF FGt(v, At(vs, Len(vs) - 1))
         THEN [panic |-> FALSE, lo |-> Len(vs) - 1, hi |-> Len(vs) - 1]
    ELSE LET r == binary_search_by(vs, v, 0, Len(vs))
         IN  IF r.panic THEN [panic |-> TRUE, lo |-> 0, hi |-> 0]
             ELSE IF r.found THEN [panic |-> FALSE, lo |-> r.ind, hi |-> r.ind]
             ELSE IF r.ind = 0 THEN [panic |-> TRUE, lo |-> 0, hi |-> 0]
             ELSE [panic |-> FALSE, lo |-> r.ind, hi |-> r.ind - 1]

\* twod_lut::interpolation::get_indices
get_indices(v, vs) ==
    IF ~InRange(vs, 0) THEN [panic |-> TRUE, lo |-> 0, hi |-> 0]
    ELSE IF FLt(v, At(vs, 0)) THEN [panic |-> FALSE, lo |-> 0, hi |-> 0]
    ELSE IF FGt(v, At(vs, Len(vs) - 1))
         THEN [panic |-> FALSE, lo |-> Len(vs) - 1, hi |-> Len(vs) - 1]
    ELSE LET r == binary_search_by(vs, v, 0, Len(vs))
         IN  IF r.panic THEN [panic |-> TRUE, lo |-> 0, hi |-> 0]
             ELSE IF r.found THEN [panic |-> FALSE, lo |-> r.ind, hi |-> r.ind]
             ELSE IF r.ind = 0 THEN [panic |-> TRUE, lo |-> 0, hi |-> 0]
             ELSE [panic |-> FALSE, lo |-> r.ind - 1, hi |-> r.ind]

\* surface[row][col] is inside the surface.
CellInRange(s, row, col) == InRange(s, row) /\ InRange(At(s, row), col)

Cell(s, row, col) == At(At(s, row), col)

\* Which divisions the branch interpolate takes performs: by (x2 - x1), by
\* (y2 - y1), both or neither.
Divides(fq11, fq12, fq21, fq22) ==
    IF FEq(fq11, fq22) THEN [x |-> FALSE, y |-> FALSE]
    ELSE IF FEq(fq11, fq21) THEN [x |-> TRUE, y |-> FALSE]
    ELSE IF FEq(fq11, fq12) THEN [x |-> FALSE, y |-> TRUE]
    ELSE [x |-> TRUE, y |-> TRUE]

\* The branches of interpolate over the four corners of the quad.
Bilinear(x, y, x1, x2, y1, y2, fq11, fq12, fq21, fq22) ==
    IF FEq(fq11, fq22) THEN fq11
    ELSE IF FEq(fq11, fq21)
         THEN LET alpha == FDiv(FSub(x, x1), FSub(x2, x1))
              IN  FAdd(fq11, FMul(alpha, FSub(fq12, fq11)))
    ELSE IF FEq(fq11, fq12)
         THEN LET alpha == FDiv(FSub(y, y1), FSub(y2, y1))
              IN  FAdd(fq11, FMul(alpha, FSub(fq21, fq11)))
    ELSE LET alpha_x == FDiv(FSub(x, x1), FSub(x2, x1))
             alpha_y == FDiv(FSub(y, y1), FSub(y2, y1))
             fxy1    == FAdd(fq11, FMul(alpha_x, FSub(fq21, fq11)))
             fxy2    == FAdd(fq12, FMul(alpha_x, FSub(fq22, fq12)))
         IN  FAdd(fxy1, FMul(FSub(fxy2, fxy1), alpha_y))

\* twod_lut::interpolation::interpolate (and interpolate_dynamic, the same
\* body over slices): the corners are read as surface[y index][x index].
twod_interpolate(x, y, x_s, y_s, s) ==
    LET xi == get_indices(x, x_s)
        yi == get_indices(y, y_s)
    IN  IF xi.panic \/ yi.panic THEN Panic
        ELSE IF ~CellInRange(s, yi.lo, xi.lo) \/ ~CellInRange(s, yi.lo, xi.hi)
                \/ ~CellInRange(s, yi.hi, xi.lo) \/ ~CellInRange(s, yi.hi, xi.hi)
             THEN Panic
        ELSE Value(Bilinear(x, y,
                            At(x_s, xi.lo), At(x_s, xi.hi),
                            At(y_s, yi.lo), At(y_s, yi.hi),
                            Cell(s, yi.lo, xi.lo), Cell(s, yi.lo, xi.hi),
                            Cell(s, yi.hi, xi.lo), Cell(s, yi.hi, xi.hi)))

\* ------------------------------------------------------------------------
\* State
\* ------------------------------------------------------------------------

VARIABLES
    lut,        \* which constructor was called: "none", "OneD", "OneDRef", "TwoD", "TwoDRef"
    built,      \* its result: "none" before the call, "Ok", or the error
    xs,         \* the x breakpoints handed to the constructor
    ys,         \* the y values (1D) or y breakpoints (2D) handed to it
    surface,    \* the surface rows handed to it (2D), <<>> for 1D
    xy_swapped, \* TwoDLookUpTableRef::xy_swapped
    cache,      \* the table's cache: key -> value
    query,      \* the arguments of the latest get, <<>> before the first
    ret,        \* the value the latest get returned
    hit,        \* the latest get returned at the cache check, without interpolating
    panicked,   \* a get panicked: the call never returned
    racers      \* two get calls in progress on the same query: each one's next step,
                \* the value it interpolated and the value it returned

vars == <<lut, built, xs, ys, surface, xy_swapped, cache, query, ret, hit, panicked, racers>>

\* The two callers of a get in progress.
Callers == {1, 2}

\* No get is in progress.
NoCalls == [t \in Callers |-> [pc |-> "idle", y |-> Bits(0, 0, 0), out |-> Bits(0, 0, 0)]]

\* The tables' fields (x, y, surface, cache, xy_swapped) and the outcome of
\* the latest call.
TypeOK ==
    /\ lut \in {"none", "OneD", "OneDRef", "TwoD", "TwoDRef"}
    /\ built \in {"none", "Ok", "MinLengthError", "ContainingNansOrInfinities",
                  "IncreasingXOrderError", "IncreasingDimOrderError"}
    /\ xs \in Seq(Float)
    /\ ys \in Seq(Float)
    /\ \A r \in 1 .. Len(surface) : surface[r] \in Seq(Float)
    /\ xy_swapped \in BOOLEAN
    /\ \A k \in DOMAIN cache : cache[k] \in Float
    /\ Len(query) \in {0, 1, 2}
    /\ \A i \in 1 .. Len(query) : query[i] \in Float
    /\ ret \in Float
    /\ hit \in BOOLEAN
    /\ panicked \in BOOLEAN
    /\ \A t \in DOMAIN racers :
           /\ racers[t].pc \in {"idle", "contains_key", "interpolate", "insert",
                                "read_back", "done", "panicked"}
           /\ racers[t].y \in Float
           /\ racers[t].out \in Float

\* A map that is created holding an entry.
EmptyCache_preloaded == (<<0, 0, 1>> :> Num(1))

\* HashMap::new()
EmptyCache == <<>>

\* The exploration bound on raced queries per table.
MaxRaces == 1

\* The exploration bound: a query is made while its key is cached or the
\* cache holds fewer than MaxCached entries.
HasRoom(k) == k \in DOMAIN cache \/ Cardinality(DOMAIN cache) < MaxCached

\* insert that evicts every other entry.
Insert_evicting(c, k, v) == [j \in {k} |-> v]

\* insert that adds v to the value already stored under k.
Insert_accumulating(c, k, v) ==
    [j \in (DOMAIN c) \cup {k} |->
        IF j # k THEN c[j] ELSE IF k \in DOMAIN c THEN FAdd(c[k], v) ELSE v]

\* HashMap::insert
Insert(c, k, v) == [j \in (DOMAIN c) \cup {k} |-> IF j = k THEN v ELSE c[j]]

\* ------------------------------------------------------------------------
\* Inputs
\* ------------------------------------------------------------------------

SeqsUpTo(S, n) == UNION {[1 .. m -> S] : m \in 0 .. n}

\* Breakpoints offered to the 1D constructors.
XVals == {Num(0), Lit(0, 1, 8), Num(1), Num(2), NAN}

\* Values offered to the 1D constructors.
YVals == {Num(1), Num(3), NEG_INFINITY}

\* Queries offered to the 1D get: below, negative zero, a point just above
\* zero, a breakpoint, an interior point, above, and NaN.
Queries == {Num(-1), Bits(1, 0, 0), Lit(0, 1, 8), Num(1), Lit(0, 3, 2), INFINITY, NAN}

\* Breakpoints of the well-formed 2D axes.
AxisVals == {Num(1), Num(2), Num(4)}

\* Axes offered to the 2D constructors: every strictly increasing axis over
\* AxisVals, and axes that break one rule each (too short, NaN, infinity,
\* equal neighbours, decreasing).
AxisSeqs ==
    {a \in SeqsUpTo(AxisVals, MaxLen) : Len(a) >= 2 /\ StrictlyIncreasing(a, EPSILON)}
        \cup {<<Num(1)>>, <<NAN>>, <<Num(1), NAN>>, <<Num(1), INFINITY>>,
              <<Num(1), Num(1)>>, <<Num(2), Num(1)>>}

\* Surfaces of r rows and c columns offered to the 2D constructors.
Ramp(r, c) == [i \in 1 .. r |-> [j \in 1 .. c |-> Num(((i - 1) * c + j - 1) % 9)]]

Flat(r, c) == [i \in 1 .. r |-> [j \in 1 .. c |-> Num(1)]]

Checker(r, c) ==
    [i \in 1 .. r |-> [j \in 1 .. c |-> IF (i + j) % 2 = 0 THEN Num(1) ELSE Num(3)]]

ByColumn(r, c) == [i \in 1 .. r |-> [j \in 1 .. c |-> Num(j)]]

ByRow(r, c) == [i \in 1 .. r |-> [j \in 1 .. c |-> Num(i)]]

WithCell(s, v) == [s EXCEPT ![Len(s)] = [s[Len(s)] EXCEPT ![1] = v]]

Surfaces(r, c) ==
    {Ramp(r, c), Flat(r, c), Checker(r, c), ByColumn(r, c), ByRow(r, c),
     WithCell(Ramp(r, c), NAN), WithCell(Flat(r, c), NEG_INFINITY)}

\* A surface whose last row is one element short.
Ragged(r, c) == [i \in 1 .. r |-> [j \in 1 .. (IF i = r THEN c - 1 ELSE c) |-> Num(i + j)]]

\* A surface whose columns alternate between two values so far apart that
\* their difference overflows.
Steep(r, c) ==
    [i \in 1 .. r |-> [j \in 1 .. c |-> IF j % 2 = 1 THEN Num(-12) ELSE Num(12)]]

\* Row slices offered to the borrowing 2D constructor for axes of lengths m
\* and n: m rows of n, n rows of m, a ragged last row, a missing row, and
\* the steep surface.
RowSlices(m, n) ==
    Surfaces(m, n) \cup Surfaces(n, m) \cup {Ragged(m, n), Ramp(m - 1, n), Steep(m, n)}

\* Query pairs offered to the 2D get: the four out-of-range corners, a grid
\* point, points interior on one axis or on both, and NaN on either axis.
Queries2D ==
    {<<Num(0), Num(0)>>, <<Num(8), Num(0)>>, <<Num(8), Num(8)>>, <<Num(0), Num(8)>>,
     <<Num(2), Num(1)>>, <<Lit(0, 3, 2), Num(3)>>, <<Num(1), Lit(0, 3, 2)>>,
     <<Lit(0, 3, 2), Lit(0, 3, 2)>>, <<NAN, Num(1)>>, <<Num(1), NAN>>}

Init ==
    /\ lut = "none"
    /\ built = "none"
    /\ xs = <<>>
    /\ ys = <<>>
    /\ surface = <<>>
    /\ xy_swapped = FALSE
    /\ cache = EmptyCache
    /\ query = <<>>
    /\ ret = Bits(0, 0, 0)
    /\ hit = FALSE
    /\ panicked = FALSE
    /\ racers = NoCalls

\* ------------------------------------------------------------------------
\* One-dimensional table: operations
\* ------------------------------------------------------------------------

\* The constructors' common body: validate, then store the arrays with an
\* empty cache.
Construct1D(kind, x, y) ==
    /\ lut' = kind
    /\ built' = is_object_constructible(x, y)
    /\ xs' = x
    /\ ys' = y
    /\ cache' = EmptyCache
    /\ UNCHANGED <<surface, xy_swapped, query, ret, hit, panicked, racers>>

\* OneDLookUpTable::<N>::new(x: [f64; N], y: [f64; N])
OneDLookUpTable_new ==
    /\ lut = "none"
    /\ \E x \in SeqsUpTo(XVals, MaxLen) :
           \E y \in [1 .. Len(x) -> YVals] : Construct1D("OneD", x, y)

\* OneDLookUpTableRef::new(xs: &[f64], ys: &[f64])
OneDLookUpTableRef_new ==
    /\ lut = "none"
    /\ \E x \in SeqsUpTo(XVals, MaxLen), y \in SeqsUpTo(YVals, MaxLen) :
           Construct1D("OneDRef", x, y)

\* The body of get: cache lookup, else interpolate, insert and read back.
Lookup1D(index) ==
    LET ind == integer_decode(index)
    IN  /\ built = "Ok"
        /\ ~panicked
        /\ HasRoom(ind)
        /\ query' = <<index>>
        /\ IF ind \in DOMAIN cache
           THEN /\ ret' = cache[ind]
                /\ hit' = TRUE
                /\ UNCHANGED <<cache, panicked>>
           ELSE LET y == interpolate(index, xs, ys)
                IN  IF y.ok
                    THEN /\ cache' = Insert(cache, ind, y.v)
                         /\ ret' = cache'[ind]
                         /\ hit' = FALSE
                         /\ UNCHANGED panicked
                    ELSE /\ panicked' = TRUE
                         /\ hit' = FALSE
                         /\ UNCHANGED <<cache, ret>>
        /\ UNCHANGED <<lut, built, xs, ys, surface, xy_swapped, racers>>

\* OneDLookUpTable::get
OneDLookUpTable_get ==
    /\ lut = "OneD"
    /\ \E index \in Queries : Lookup1D(index)

\* OneDLookUpTableRef::get
OneDLookUpTableRef_get ==
    /\ lut = "OneDRef"
    /\ \E index \in Queries : Lookup1D(index)

\* ------------------------------------------------------------------------
\* Two-dimensional table: operations
\* ------------------------------------------------------------------------

\* TwoDLookUpTable::<M, N>::new(xs: [f64; M], ys: [f64; N], surface: [[f64; N]; M])
TwoDLookUpTable_new ==
    /\ lut = "none"
    /\ \E x \in AxisSeqs, y \in AxisSeqs :
           \E s \in Surfaces(Len(x), Len(y)) :
               /\ lut' = "TwoD"
               /\ built' = is_object_constructible_dynamic(x, y, s)
               /\ xs' = x
               /\ ys' = y
               /\ surface' = s
               /\ cache' = EmptyCache
               /\ UNCHANGED <<xy_swapped, query, ret, hit, panicked, racers>>

\* TwoDLookUpTableRef::new(xs: &[f64], ys: &[f64], surface: &[&[f64]])
TwoDLookUpTableRef_new ==
    /\ lut = "none"
    /\ \E x \in AxisSeqs, y \in AxisSeqs :
           \E s \in RowSlices(Len(x), Len(y)) :
               /\ lut' = "TwoDRef"
               /\ built' = is_object_constructible_dynamic(x, y, s)
               /\ xs' = x
               /\ ys' = y
               /\ surface' = s
               /\ cache' = EmptyCache
               /\ xy_swapped' = (Len(x) # Len(y) /\ Len(x) = Len(s))
               /\ UNCHANGED <<query, ret, hit, panicked, racers>>

\* The common tail of the 2D gets: cache lookup under key, else the
\* interpolation result z is inserted and read back.
Lookup2D(key, z) ==
    /\ IF key \in DOMAIN cache
       THEN /\ ret' = cache[key]
            /\ hit' = TRUE
            /\ UNCHANGED <<cache, panicked>>
       ELSE IF z.ok
            THEN /\ cache' = Insert(cache, key, z.v)
                 /\ ret' = cache'[key]
                 /\ hit' = FALSE
                 /\ UNCHANGED panicked
            ELSE /\ panicked' = TRUE
                 /\ hit' = FALSE
                 /\ UNCHANGED <<cache, ret>>
    /\ UNCHANGED <<lut, built, xs, ys, surface, xy_swapped, racers>>

\* TwoDLookUpTable::get
TwoDLookUpTable_get ==
    /\ lut = "TwoD"
    /\ built = "Ok"
    /\ ~panicked
    /\ \E q \in Queries2D :
           LET x   == q[1]
               y   == q[2]
               key == <<integer_decode(x), integer_decode(y)>>
           IN  /\ HasRoom(key)
               /\ query' = q
               /\ Lookup2D(key, twod_interpolate(x, y, xs, ys, surface))

\* TwoDLookUpTableRef::get
TwoDLookUpTableRef_get ==
    /\ lut = "TwoDRef"
    /\ built = "Ok"
    /\ ~panicked
    /\ \E q \in Queries2D :
           LET x   == IF xy_swapped THEN q[2] ELSE q[1]
               y   == IF xy_swapped THEN q[1] ELSE q[2]
               key == <<integer_decode(x), integer_decode(y)>>
           IN  /\ HasRoom(key)
               /\ query' = q
               /\ Lookup2D(key, IF xy_swapped
                                THEN twod_interpolate(x, y, ys, xs, surface)
                                ELSE twod_interpolate(x, y, xs, ys, surface))

Next ==
    \/ OneDLookUpTable_new
    \/ OneDLookUpTableRef_new
    \/ OneDLookUpTable_get
    \/ OneDLookUpTableRef_get
    \/ TwoDLookUpTable_new
    \/ TwoDLookUpTableRef_new
    \/ TwoDLookUpTable_get
    \/ TwoDLookUpTableRef_get

Spec == Init /\ [][Next]_vars

\* The one-dimensional tables on their own.
NextOneD ==
    \/ OneDLookUpTable_new
    \/ OneDLookUpTableRef_new
    \/ OneDLookUpTable_get
    \/ OneDLookUpTableRef_get

SpecOneD == Init /\ [][NextOneD]_vars

\* The two-dimensional tables on their own.
NextTwoD ==
    \/ TwoDLookUpTable_new
    \/ TwoDLookUpTableRef_new
    \/ TwoDLookUpTable_get
    \/ TwoDLookUpTableRef_get

SpecTwoD == Init /\ [][NextTwoD]_vars

\* ------------------------------------------------------------------------
\* Properties
\* ------------------------------------------------------------------------

Is1D == lut \in {"OneD", "OneDRef"}

Is2D == lut \in {"TwoD", "TwoDRef"}

\* A get has been called on a constructed table.
Queried == built = "Ok" /\ query # <<>>

\* The latest get returned a value.
Returned == Queried /\ ~panicked

Last(vs) == vs[Len(vs)]

\* The cache key of a query, as the table's get forms it.
KeyOf(q) ==
    IF Is1D THEN integer_decode(q[1])
    ELSE IF xy_swapped THEN <<integer_decode(q[2]), integer_decode(q[1])>>
    ELSE <<integer_decode(q[1]), integer_decode(q[2])>>

\* C1: on an owning 1D table, a get at a breakpoint x[i] returns y[i]
\* exactly, in every state of every query sequence (first call or later,
\* cached or not).
C1_ExactHit ==
    (lut = "OneD" /\ Queried) =>
        \A i \in 1 .. Len(xs) :
            FEq(query[1], xs[i]) => (~panicked /\ ret = ys[i])

\* A breakpoint other than the first is queried once the cache already holds
\* another query's entry, and its value comes back.
C1_Witness ==
    /\ lut = "OneD"
    /\ Returned
    /\ Cardinality(DOMAIN cache) = 2
    /\ Len(xs) = 3
    /\ query[1] = xs[2]
    /\ ret = ys[2]
    /\ ys[2] # ys[1]

\* C2: on every constructed 1D table, a get below x[0] returns y[0] and a
\* get above x[last] returns y[last], whatever the cache holds.
C2_Clamp ==
    (Is1D /\ Queried) =>
        /\ FLt(query[1], xs[1]) => (~panicked /\ ret = ys[1])
        /\ FGt(query[1], Last(xs)) => (~panicked /\ ret = Last(ys))

\* A query above the last breakpoint returns y[last] while the cache holds
\* another query's entry with a different value.
C2_Witness ==
    /\ lut = "OneD"
    /\ Returned
    /\ FGt(query[1], Last(xs))
    /\ ret = Last(ys)
    /\ \E k \in DOMAIN cache : cache[k] # ret

\* C3: on an owning 1D table, a get strictly between x[i] and x[i+1] returns
\* y[i] + ((q - x[i]) / (x[i+1] - x[i])) * (y[i+1] - y[i]).
C3_Interior ==
    (lut = "OneD" /\ Queried) =>
        \A i \in 1 .. (Len(xs) - 1) :
            (FLt(xs[i], query[1]) /\ FLt(query[1], xs[i + 1])) =>
                /\ ~panicked
                /\ ret = FAdd(ys[i],
                              FMul(FDiv(FSub(query[1], xs[i]), FSub(xs[i + 1], xs[i])),
                                   FSub(ys[i + 1], ys[i])))

\* A query strictly inside the second interval of a three-point table
\* returns a value strictly between the two neighbouring y values.
C3_Witness ==
    /\ lut = "OneD"
    /\ Returned
    /\ ~hit
    /\ Len(xs) = 3
    /\ FLt(xs[2], query[1])
    /\ FLt(query[1], xs[3])
    /\ FLt(ys[2], ret)
    /\ FLt(ret, ys[3])

\* C4: a get on an owning 1D table never panics, whatever f64 is queried.
C4_GetIsTotal == (lut = "OneD" /\ built = "Ok") => ~panicked

\* C5: a get on an owning 2D table never panics, whether or not the table
\* is square: the four corner reads stay inside the surface. (Stated for the
\* queries without a NaN coordinate; a NaN coordinate panics as in C4.)
C5_GetIsTotal2D ==
    (lut = "TwoD" /\ Queried /\ ~is_nan(query[1]) /\ ~is_nan(query[2])) => ~panicked

\* x[i+1] - x[i] <= EPSILON for some adjacent pair.
HasSmallGap(vs) ==
    \E i \in 1 .. (Len(vs) - 1) :
        LET d == FSub(vs[i + 1], vs[i]) IN ~is_nan(d) /\ Ord(d) <= Ord(EPSILON)

HasNanOrInf(vs) == \E i \in 1 .. Len(vs) : vs[i].exp = ExpMax

\* C6: the 1D constructors report MinLengthError if x or y has fewer than 2
\* elements; otherwise ContainingNansOrInfinities if x or y holds a NaN or an
\* infinity; otherwise IncreasingXOrderError if an adjacent pair of x has a
\* gap <= EPSILON; otherwise they succeed.
C6_Construction1D ==
    Is1D =>
        built = IF Len(xs) < 2 \/ Len(ys) < 2 THEN "MinLengthError"
                ELSE IF HasNanOrInf(xs) \/ HasNanOrInf(ys)
                     THEN "ContainingNansOrInfinities"
                ELSE IF HasSmallGap(xs) THEN "IncreasingXOrderError"
                ELSE "Ok"

\* An input that breaks two rules at once (a NaN among breakpoints that are
\* also out of order) reports the earlier one.
C6_Witness ==
    /\ lut = "OneD"
    /\ Len(xs) = 3
    /\ is_nan(xs[3])
    /\ FGt(xs[1], xs[2])
    /\ built = "ContainingNansOrInfinities"

\* C7: the 2D constructors report MinLengthError if either axis has fewer
\* than 2 elements; otherwise ContainingNansOrInfinities if either axis or
\* any surface cell holds a NaN or an infinity; otherwise
\* IncreasingDimOrderError if either axis has an adjacent gap <= EPSILON;
\* otherwise they succeed, whatever the order of the surface values.
C7_Construction2D ==
    Is2D =>
        built = IF Len(xs) < 2 \/ Len(ys) < 2 THEN "MinLengthError"
                ELSE IF \/ HasNanOrInf(xs)
                        \/ HasNanOrInf(ys)
                        \/ \E r \in 1 .. Len(surface) : HasNanOrInf(surface[r])
                     THEN "ContainingNansOrInfinities"
                ELSE IF HasSmallGap(xs) \/ HasSmallGap(ys)
                     THEN "IncreasingDimOrderError"
                ELSE "Ok"

\* A table whose x axis is well formed is rejected for its y axis alone,
\* although its surface is fine.
C7_Witness ==
    /\ lut = "TwoD"
    /\ Len(xs) = 3
    /\ ~HasSmallGap(xs)
    /\ ~HasNanOrInf(xs)
    /\ Len(ys) = 2
    /\ FGt(ys[1], ys[2])
    /\ surface = Checker(3, 2)
    /\ built = "IncreasingDimOrderError"

\* C8: a get that returns leaves its value in the cache under the query's
\* key; a get whose key is already cached returns the cached value and leaves
\* the cache unchanged; and no get removes or changes another entry, so a
\* later bit-identical query gets the same value back.
C8_ServedFromCache ==
    [][(built' = "Ok" /\ query' # <<>> /\ ~panicked') =>
            LET k == KeyOf(query')
            IN  /\ k \in DOMAIN cache'
                /\ cache'[k] = ret'
                /\ (k \in DOMAIN cache =>
                        (hit' /\ cache' = cache /\ ret' = cache[k]))
                /\ \A j \in DOMAIN cache :
                        j \in DOMAIN cache' /\ cache'[j] = cache[j]]_vars

\* A breakpoint is queried again after another query, and is served from
\* the cache.
C8_Witness ==
    /\ Is1D
    /\ Returned
    /\ hit
    /\ Cardinality(DOMAIN cache) = 2
    /\ \E i \in 1 .. Len(xs) : query[1] = xs[i]
    /\ cache[KeyOf(query)] = ret

\* The value the table's interpolation routine computes for a query.
Computed(q) ==
    IF Is1D THEN interpolate(q[1], xs, ys)
    ELSE IF xy_swapped THEN twod_interpolate(q[2], q[1], ys, xs, surface)
    ELSE twod_interpolate(q[1], q[2], xs, ys, surface)

\* Distinct bit patterns have distinct keys.  This depends on integer_decode
\* alone, not on the table, so C9 evaluates it once, before construction.
KeysDistinct ==
    \A a \in Float, b \in Float : integer_decode(a) = integer_decode(b) => a = b

\* C9: every get that returns gives the value the interpolation routine
\* computes for its query, whatever the cache holds, and two different bit
\* patterns never share a key.
C9_CacheTransparent ==
    /\ lut = "none" => KeysDistinct
    /\ Returned => LET z == Computed(query) IN z.ok /\ ret = z.v

\* A get is served from a cache that also holds a different value under
\* another key, one of them for a 2D table read with its axes swapped.
C9_Witness ==
    /\ lut = "TwoDRef"
    /\ xy_swapped
    /\ Returned
    /\ hit
    /\ \E k \in DOMAIN cache : cache[k] # ret

\* Both coordinates of the latest 2D query lie outside their axis.
OutsideBoth ==
    /\ FLt(query[1], xs[1]) \/ FGt(query[1], Last(xs))
    /\ FLt(query[2], ys[1]) \/ FGt(query[2], Last(ys))

\* Index of the breakpoint an out-of-range coordinate is clamped to.
ClampIndex(q, vs) == IF FLt(q, vs[1]) THEN 1 ELSE Len(vs)

\* C10: on an owning 2D table, a get with both coordinates out of range
\* returns the surface value of the corner cell: row = clamped y index,
\* column = clamped x index.
C10_CornerClamp ==
    (lut = "TwoD" /\ Queried /\ OutsideBoth) =>
        /\ ~panicked
        /\ ret = surface[ClampIndex(query[2], ys)][ClampIndex(query[1], xs)]

\* q lies strictly between two neighbouring breakpoints of vs.
Interior(q, vs) == \E i \in 1..(Len(vs) - 1) : FLt(vs[i], q) /\ FLt(q, vs[i + 1])

\* Position of the breakpoint just below an interior q.
CellOf(q, vs) == CHOOSE i \in 1..(Len(vs) - 1) : FLt(vs[i], q) /\ FLt(q, vs[i + 1])

\* Bilinear interpolation with row index = y and column index = x: along x at
\* the two y-levels j and j+1 of s, then along y between the two results.
XThenY(x, y, x_s, y_s, s, i, j) ==
    LET alpha_x == FDiv(FSub(x, x_s[i]), FSub(x_s[i + 1], x_s[i]))
        alpha_y == FDiv(FSub(y, y_s[j]), FSub(y_s[j + 1], y_s[j]))
        low  == FAdd(s[j][i], FMul(alpha_x, FSub(s[j][i + 1], s[j][i])))
        high == FAdd(s[j + 1][i], FMul(alpha_x, FSub(s[j + 1][i + 1], s[j + 1][i])))
    IN  FAdd(low, FMul(alpha_y, FSub(high, low)))

\* No two cells of the surface hold the same value.
AllCellsDistinct(s) ==
    \A r1, r2 \in DOMAIN s : \A c1 \in DOMAIN s[r1], c2 \in DOMAIN s[r2] :
        FEq(s[r1][c1], s[r2][c2]) => (r1 = r2 /\ c1 = c2)

\* C11: on an owning 2D table, a get whose query is strictly inside a cell on
\* both axes returns the bilinear interpolation of the four surrounding
\* surface values, rows indexed by y and columns by x: first along x at each
\* of the two y-levels, then along y.  Stated here for the surfaces whose
\* values all differ, where no two corners of a cell can coincide.
C11_FullBilinear ==
    (/\ lut = "TwoD" /\ Queried /\ AllCellsDistinct(surface)
     /\ Interior(query[1], xs) /\ Interior(query[2], ys)) =>
        /\ ~panicked
        /\ ret = XThenY(query[1], query[2], xs, ys, surface,
                        CellOf(query[1], xs), CellOf(query[2], ys))

\* The latest 2D query hits a breakpoint on both axes.
OnGrid(i, j) ==
    /\ i \in 1..Len(xs) /\ j \in 1..Len(ys)
    /\ FEq(query[1], xs[i]) /\ FEq(query[2], ys[j])

\* C12: on an owning 2D table whose surface has one row per x breakpoint and
\* one column per y breakpoint, get(x[i], y[j]) returns surface[i][j].
C12_GridPoint ==
    (lut = "TwoD" /\ Queried) =>
        \A i \in 1..Len(xs), j \in 1..Len(ys) :
            OnGrid(i, j) => ~panicked /\ ret = surface[i][j]

\* Neighbouring values of vs grow: vs[i] < vs[i + 1] throughout.
Increasing(vs) == \A i \in 1..(Len(vs) - 1) : FLt(vs[i], vs[i + 1])

\* The latest 1D query lies strictly between breakpoints i and i + 1, and the
\* table has a value for both.
Bracketed(i) ==
    /\ i \in 1..(Len(xs) - 1) /\ i + 1 <= Len(ys)
    /\ FLt(xs[i], query[1]) /\ FLt(query[1], xs[i + 1])

\* C13 as stated: on a 1D table with strictly increasing y, a query strictly
\* between two neighbouring breakpoints returns a value strictly between the
\* two neighbouring y values.
C13_StrictlyBetween ==
    (lut = "OneD" /\ Queried /\ Increasing(ys)) =>
        \A i \in 1..(Len(xs) - 1) :
            Bracketed(i) =>
                ~panicked /\ FLt(ys[i], ret) /\ FLt(ret, ys[i + 1])

\* The differences the interpolation takes over interval i stay finite.
NoOverflow(i) ==
    /\ ~is_infinite(FSub(xs[i + 1], xs[i]))
    /\ ~is_infinite(FSub(ys[i + 1], ys[i]))

\* C13: on a 1D table with strictly increasing y, a query strictly between two
\* neighbouring breakpoints whose x and y differences do not overflow returns
\* a value that is not below the lower neighbour y[i]; it may equal y[i].
C13_NotBelowLower ==
    (Is1D /\ Returned /\ Increasing(ys)) =>
        \A i \in 1..(Len(xs) - 1) :
            (Bracketed(i) /\ NoOverflow(i)) =>
                (FLt(ys[i], ret) \/ FEq(ys[i], ret))

\* A query strictly inside an interval of increasing y came back equal to the
\* lower neighbour: the increment was rounded away.
C13_Witness ==
    /\ Is1D
    /\ Returned
    /\ ~hit
    /\ Increasing(ys)
    /\ \E i \in 1..(Len(xs) - 1) :
          Bracketed(i) /\ NoOverflow(i) /\ FEq(ret, ys[i])

\* The surface has one row per x breakpoint and one column per y breakpoint,
\* the shape an owning table's surface has by its type.
OwningShape ==
    /\ Len(surface) = Len(xs)
    /\ \A r \in DOMAIN surface : Len(surface[r]) = Len(ys)

\* What the owning table built from the same x, y and surface computes for
\* the latest query.
Owning == twod_interpolate(query[1], query[2], xs, ys, surface)

\* C14: a borrowing 2D table answers every get as the owning table built from
\* the same x, y and surface does: it returns exactly when the owning table
\* returns, and then the same value, whether or not len(x) = len(y).
C14_SameAsOwning ==
    (lut = "TwoDRef" /\ Queried /\ OwningShape) =>
        /\ panicked <=> ~Owning.ok
        /\ ~panicked => ret = Owning.v

\* C15: a 2D table is constructed only if every row of its surface has
\* exactly len(y) elements.  Stated here for the surfaces that do have len(x)
\* rows: a ragged row is rejected.
C15_RowsMatchY ==
    (Is2D /\ built = "Ok" /\ Len(surface) = Len(xs)) =>
        \A r \in DOMAIN surface : Len(surface[r]) = Len(ys)

\* C16: a 1D table, owning or borrowing, is constructed only if x and y have
\* the same length n >= 2.
C16_EqualLengths ==
    (Is1D /\ built = "Ok") => (Len(xs) = Len(ys) /\ Len(xs) >= 2)

\* The index pairs interpolate resolves for the latest 2D query.
XPair == get_indices(query[1], xs)

YPair == get_indices(query[2], ys)

Collapsed(pair) == pair.lo = pair.hi

\* The corners interpolate reads for the latest 2D query.
Fq11 == Cell(surface, YPair.lo, XPair.lo)

Fq12 == Cell(surface, YPair.lo, XPair.hi)

Fq21 == Cell(surface, YPair.hi, XPair.lo)

Fq22 == Cell(surface, YPair.hi, XPair.hi)

AlphaX == FDiv(FSub(query[1], At(xs, XPair.lo)), FSub(At(xs, XPair.hi), At(xs, XPair.lo)))

AlphaY == FDiv(FSub(query[2], At(ys, YPair.lo)), FSub(At(ys, YPair.hi), At(ys, YPair.lo)))

\* The x-direction expression of interpolate.
AlongX == FAdd(Fq11, FMul(AlphaX, FSub(Fq12, Fq11)))

\* The y-direction expression of interpolate.
AlongY == FAdd(Fq11, FMul(AlphaY, FSub(Fq21, Fq11)))

\* The both-axes expression of interpolate.
BothAxes ==
    LET fxy1 == FAdd(Fq11, FMul(AlphaX, FSub(Fq21, Fq11)))
        fxy2 == FAdd(Fq12, FMul(AlphaX, FSub(Fq22, Fq12)))
    IN  FAdd(fxy1, FMul(FSub(fxy2, fxy1), AlphaY))

\* C17: the case a 2D get takes follows the index pairs, whatever the surface
\* values: the single corner when both pairs are collapsed, the x-direction
\* expression when only the y pair is, the y-direction expression when only
\* the x pair is, and the both-axes expression when neither is.
C17_SelectionByIndexPairs ==
    (lut = "TwoD" /\ Returned) =>
        ret = IF Collapsed(XPair) /\ Collapsed(YPair) THEN Fq11
              ELSE IF Collapsed(YPair) THEN AlongX
              ELSE IF Collapsed(XPair) THEN AlongY
              ELSE BothAxes

\* C18: with one index pair collapsed and the query strictly inside a cell on
\* the other axis, a 2D get returns the linear interpolation along that other
\* axis between the two surface values it read, equal or not.
C18_SingleAxis ==
    (lut = "TwoD" /\ Queried) =>
        /\ (Collapsed(YPair) /\ Interior(query[1], xs)) =>
               ~panicked /\ ret = AlongX
        /\ (Collapsed(XPair) /\ Interior(query[2], ys)) =>
               ~panicked /\ ret = AlongY

\* The pair get_indices returns for v over vs is the one the claim names:
\* (0, 0) below the first breakpoint, (last, last) above the last, (i, i) on
\* breakpoint i, and otherwise (ins - 1, ins) with 1 <= ins <= last and
\* vs[ins - 1] < v < vs[ins].
ResolvedPair(v, vs) ==
    LET pair == get_indices(v, vs)
        last == Len(vs) - 1
    IN  /\ ~pair.panic
        /\ pair.lo \in 0..last /\ pair.hi \in 0..last
        /\ IF FLt(v, At(vs, 0)) THEN pair.lo = 0 /\ pair.hi = 0
           ELSE IF FGt(v, At(vs, last)) THEN pair.lo = last /\ pair.hi = last
           ELSE IF \E i \in 0..last : FEq(v, At(vs, i))
                THEN pair.lo = pair.hi /\ FEq(v, At(vs, pair.lo))
           ELSE /\ pair.lo = pair.hi - 1
                /\ pair.hi \in 1..last
                /\ FLt(At(vs, pair.lo), v) /\ FLt(v, At(vs, pair.hi))

\* The search of the 1D interpolate brackets an in-range v that is not a
\* breakpoint: lub is in 1..last and vs[lub - 1] < v < vs[lub].
ResolvedBracket(v, vs) ==
    LET r    == binary_search_by(vs, v, 0, Len(vs))
        last == Len(vs) - 1
    IN  /\ ~r.panic
        /\ IF r.found THEN r.ind \in 0..last /\ FEq(v, At(vs, r.ind))
           ELSE /\ r.ind \in 1..last
                /\ FLt(At(vs, r.ind - 1), v) /\ FLt(v, At(vs, r.ind))

\* v is not NaN and lies within the breakpoints of vs, ends included.
WithinAxis(v, vs) == ~is_nan(v) /\ ~FLt(v, At(vs, 0)) /\ ~FGt(v, At(vs, Len(vs) - 1))

\* C19: on every constructed table (strictly increasing breakpoints) and for
\* every non-NaN query coordinate, get_indices returns the pair the claim
\* names, with both indices inside the axis; the search of the 1D
\* interpolate brackets an in-range query in the same way.
C19_IndexResolution ==
    /\ (Is2D /\ Queried /\ ~is_nan(query[1])) => ResolvedPair(query[1], xs)
    /\ (Is2D /\ Queried /\ ~is_nan(query[2])) => ResolvedPair(query[2], ys)
    /\ (Is1D /\ Queried /\ WithinAxis(query[1], xs)) => ResolvedBracket(query[1], xs)

\* A 2D get resolved a bracketing pair on x and a collapsed pair on y.
C19_Witness ==
    /\ Is2D
    /\ Returned
    /\ Interior(query[1], xs)
    /\ XPair.hi = XPair.lo + 1
    /\ Collapsed(YPair)
    /\ Len(xs) = 3

\* C20: the cache is empty right after construction; afterwards every get
\* keeps each entry it found, with its value, and adds at most one entry,
\* under the key of its own query (none when it panics or is served from the
\* cache).
C20_CacheGrowth ==
    [][/\ lut = "none" => DOMAIN cache' = {}
       /\ lut # "none" =>
            /\ \A k \in DOMAIN cache : k \in DOMAIN cache' /\ cache'[k] = cache[k]
            /\ (DOMAIN cache') \ (DOMAIN cache) \subseteq {KeyOf(query')}
            /\ (panicked' \/ hit') => cache' = cache]_vars

\* A get on a table that already held an entry added a second one, under its
\* own key.
C20_Witness ==
    /\ Returned
    /\ ~hit
    /\ Cardinality(DOMAIN cache) = 2
    /\ KeyOf(query) \in DOMAIN cache
    /\ cache[KeyOf(query)] = ret

\* ------------------------------------------------------------------------
\* Two gets for the same query, interleaved step by step
\* ------------------------------------------------------------------------

\* The steps of get are its statements: the contains_key check (with the
\* return of the cached value), the interpolation, the insert and the
\* read-back.  Each statement takes and releases its own borrow of the
\* RefCell, so no borrow is held between two steps.

\* Both callers enter get with the same query, whose key is not cached.
get_enter ==
    /\ lut \in {"OneD", "TwoD"}
    /\ built = "Ok"
    /\ \A t \in Callers : racers[t].pc \in {"idle", "done"}
    /\ Cardinality(DOMAIN cache) < MaxRaces
    /\ \E q \in (IF lut = "OneD" THEN {<<index>> : index \in Queries} ELSE Queries2D) :
           /\ KeyOf(q) \notin DOMAIN cache
           /\ query' = q
           /\ racers' = [t \in Callers |-> [NoCalls[t] EXCEPT !.pc = "contains_key"]]
    /\ UNCHANGED <<lut, built, xs, ys, surface, xy_swapped, cache, ret, hit, panicked>>

\* if self.cache.borrow().contains_key(&key) { return *self.cache.borrow().get(&key).unwrap(); }
get_contains_key(t) ==
    /\ racers[t].pc = "contains_key"
    /\ racers' = IF KeyOf(query) \in DOMAIN cache
                 THEN [racers EXCEPT ![t].pc = "done", ![t].out = cache[KeyOf(query)]]
                 ELSE [racers EXCEPT ![t].pc = "interpolate"]
    /\ UNCHANGED <<lut, built, xs, ys, surface, xy_swapped, cache, query, ret, hit, panicked>>

\* let y = interpolate(..);
get_interpolate(t) ==
    /\ racers[t].pc = "interpolate"
    /\ LET y == IF lut = "OneD" THEN interpolate(query[1], xs, ys)
                ELSE twod_interpolate(query[1], query[2], xs, ys, surface)
       IN  racers' = IF y.ok
                     THEN [racers EXCEPT ![t].pc = "insert", ![t].y = y.v]
                     ELSE [racers EXCEPT ![t].pc = "panicked"]
    /\ UNCHANGED <<lut, built, xs, ys, surface, xy_swapped, cache, query, ret, hit, panicked>>

\* self.cache.borrow_mut().insert(key, y);
get_insert(t) ==
    /\ racers[t].pc = "insert"
    /\ cache' = Insert(cache, KeyOf(query), racers[t].y)
    /\ racers' = [racers EXCEPT ![t].pc = "read_back"]
    /\ UNCHANGED <<lut, built, xs, ys, surface, xy_swapped, query, ret, hit, panicked>>

\* *self.cache.borrow().get(&key).unwrap()
get_read_back(t) ==
    /\ racers[t].pc = "read_back"
    /\ racers' = IF KeyOf(query) \in DOMAIN cache
                 THEN [racers EXCEPT ![t].pc = "done", ![t].out = cache[KeyOf(query)]]
                 ELSE [racers EXCEPT ![t].pc = "panicked"]
    /\ UNCHANGED <<lut, built, xs, ys, surface, xy_swapped, cache, query, ret, hit, panicked>>

NextRace ==
    \/ OneDLookUpTable_new
    \/ TwoDLookUpTable_new
    \/ get_enter
    \/ \E t \in Callers : get_contains_key(t)
    \/ \E t \in Callers : get_interpolate(t)
    \/ \E t \in Callers : get_insert(t)
    \/ \E t \in Callers : get_read_back(t)

SpecRace == Init /\ [][NextRace]_vars

\* Two gets are, or were, under way on the latest query.
Racing == built = "Ok" /\ query # <<>> /\ \A t \in Callers : racers[t].pc # "idle"

\* C21: while two gets for the same uncached query interleave step by step,
\* the cache never holds another value under the query's key than the one a
\* get alone computes for it, a caller that has returned has returned that
\* value, and once both have returned the cache holds that value under the
\* key.
C21_RacingGets ==
    Racing =>
        LET k == KeyOf(query)
            z == Computed(query)
        IN  /\ k \in DOMAIN cache => (z.ok /\ cache[k] = z.v)
            /\ \A t \in Callers :
                   /\ racers[t].pc = "done" => (z.ok /\ racers[t].out = z.v)
                   /\ racers[t].pc = "panicked" => ~z.ok
            /\ (\A t \in Callers : racers[t].pc = "done") => k \in DOMAIN cache

\* Both callers missed the cache and interpolated; one has inserted and
\* returned, the other is about to insert over the entry.
C21_Witness ==
    /\ Racing
    /\ KeyOf(query) \in DOMAIN cache
    /\ \E t \in Callers, u \in Callers :
           /\ racers[t].pc = "done"
           /\ racers[u].pc = "insert"

\* ------------------------------------------------------------------------
\* Divisors of the 2D interpolation
\* ------------------------------------------------------------------------

\* A square table with a full surface, queried with two non-NaN coordinates.
SquareQueried ==
    /\ Is2D
    /\ Queried
    /\ Len(xs) = Len(ys)
    /\ OwningShape
    /\ ~is_nan(query[1]) /\ ~is_nan(query[2])

\* The divisions of the branch taken for the latest query.
Taken == Divides(Fq11, Fq12, Fq21, Fq22)

DivisorX == FSub(At(xs, XPair.hi), At(xs, XPair.lo))

DivisorY == FSub(At(ys, YPair.hi), At(ys, YPair.lo))

\* The branch taken divides only by the difference of a pair that is not
\* collapsed, and that difference exceeds EPSILON.
DivisorsExceedEpsilon ==
    /\ Taken.x => (~Collapsed(XPair) /\ FGt(DivisorX, EPSILON))
    /\ Taken.y => (~Collapsed(YPair) /\ FGt(DivisorY, EPSILON))

\* C22 as stated: on a valid square 2D table and for every non-NaN query
\* pair, the branch taken divides only by the difference of a pair that is
\* not collapsed, every divisor exceeds EPSILON, and the value returned and
\* cached is neither NaN nor infinite.
C22_FiniteResult ==
    SquareQueried =>
        /\ ~panicked
        /\ DivisorsExceedEpsilon
        /\ ~is_nan(ret) /\ ~is_infinite(ret)
        /\ \A k \in DOMAIN cache : ~is_nan(cache[k]) /\ ~is_infinite(cache[k])

\* C22: on a valid square 2D table and for every non-NaN query pair, get
\* returns, and the branch it takes divides by (x2 - x1) only when the x index
\* pair is not collapsed and by (y2 - y1) only when the y index pair is not
\* collapsed; every divisor exceeds EPSILON.
C22_NoDivisionByZero ==
    SquareQueried => (~panicked /\ DivisorsExceedEpsilon)

\* A get took the x-direction branch because two corner values are equal,
\* with neither index pair collapsed, and divided by (x2 - x1).
C22_Witness ==
    /\ SquareQueried
    /\ Returned
    /\ ~hit
    /\ Taken.x /\ ~Taken.y
    /\ ~Collapsed(XPair) /\ ~Collapsed(YPair)

====
